---- MODULE Spec2Model ----
(***************************************************************************)
(* Model of the document index gateway (ElasticsearchService): the index   *)
(* registry, the startup bootstrap (onModuleInit / ensureIndexExists), the *)
(* upsert / delete write path and the per-type scoped search, together     *)
(* with the part of the search engine those calls address; and of the      *)
(* weblink import list of the front end (ImportFromWeblink).               *)
(*                                                                         *)
(* Strings are modelled by what the engine does with them: a value is the  *)
(* sequence of its word tokens.  A keyword field compares the whole value, *)
(* a text field compares analysed tokens.                                  *)
(***************************************************************************)
EXTENDS Integers, Sequences, FiniteSets, TLC

\* ------------------------------------------------------------------ bounds
\* Largest `limit` a search request asks for (one request asks for -1).
MaxLimit == 1
\* Largest number of times a gateway process is started.
MaxRuns == 2
\* Largest number of writes to one index the engine has not yet made
\* searchable (pending its next refresh).
MaxPending == 1
\* Largest number of links pasted into the weblink import list in one run.
MaxLinks == 3

\* Document ids handed to upsert / delete / entities.
Ids == {"d1", "d2"}
\* Two users; the uids "u-1" and "u-2" share the word token "u".
Users == {[uid |-> <<"u", "1">>], [uid |-> <<"u", "2">>]}
\* Values of the optional text fields of the documents that are upserted.
Texts == {<<"q">>}
\* Query strings of the search requests.
Queries == {<<"q">>, <<"z">>}
\* Errors the engine (or the transport to it) answers a call with.
EngineErrors == {"es_unavailable", "es_rejected"}
\* Gateway processes.
Procs == {"p1", "p2"}

\* `entities` left undefined in a request, or given as a list of entities.
NoEntities == [defined |-> FALSE]
EntityList(list) == [defined |-> TRUE, list |-> list]
\* bool.filter left out of a search body, or a terms filter on _id.
NoFilter == [defined |-> FALSE]
TermsFilter(ids) == [defined |-> TRUE, ids |-> ids]
\* An index holding no document: a function from the stored ids to documents.
EmptyIndex == [id \in {} |-> {}]

\* --------------------------------------------------------------- registry
indexConfig ==
    [resource |->
        [index |-> "refly_resources",
         properties |-> [title |-> "text", content |-> "text", url |-> "keyword",
                         createdAt |-> "date", updatedAt |-> "date", uid |-> "keyword"]],
     note |->
        [index |-> "refly_notes",
         properties |-> [title |-> "text", content |-> "text",
                         createdAt |-> "date", updatedAt |-> "date", uid |-> "keyword"]],
     collection |->
        [index |-> "refly_collections",
         properties |-> [title |-> "text", description |-> "text",
                         createdAt |-> "date", updatedAt |-> "date", uid |-> "keyword"]],
     conversationMessage |->
        [index |-> "refly_conversation_messages",
         properties |-> [convId |-> "keyword", convTitle |-> "text", content |-> "text",
                         type |-> "keyword", createdAt |-> "date", updatedAt |-> "date",
                         uid |-> "keyword"]],
     skill |->
        [index |-> "refly_skills",
         properties |-> [displayName |-> "text", description |-> "text",
                         tplName |-> "keyword", createdAt |-> "date",
                         updatedAt |-> "date", uid |-> "keyword"]]]

Types == DOMAIN indexConfig

\* Object.values(indexConfig): the registered index names.
IndexNames == {indexConfig[t].index : t \in Types}

\* The registry entry of an index name.
ConfigOf(index) == CHOOSE t \in Types : indexConfig[t].index = index

VARIABLES
    indices,      \* engine: names of the indices that exist
    docs,         \* engine: docs[index][id], the live document (what update/delete read)
    searchable,   \* engine: searchable[index][id], the documents as of the last refresh
    init,         \* init[p]: the promise returned by p's onModuleInit
    call,         \* call[p][index]: position of p's ensureIndexExists(index)
    creates,      \* creates[p]: indices.create calls p issued in this run
    atStart,      \* atStart[p]: the indices that existed when p's bootstrap began
    runs,         \* runs[p]: how many times p has been started
    result,       \* outcome of the last upsert / delete / search handler call
    scrapeLinks,  \* import store: the list of links, as the keys of its link objects
    linkMeta,     \* linkMeta[key]: the flags of the link object with that key
    scrapes,      \* scrapes[key]: the scrapeSingleUrl call for that key
    saveLoading   \* handleSave is awaiting batchCreateResource

vars == <<indices, docs, searchable, init, call, creates, atStart, runs, result,
          scrapeLinks, linkMeta, scrapes, saveLoading>>

engine == <<indices, docs, searchable>>
boot == <<init, call, creates, atStart, runs>>
ui == <<scrapeLinks, linkMeta, scrapes, saveLoading>>

\* ------------------------------------------------------- engine: queries
\* The analyser of a text field: the word tokens of a value.
Analyze(v) == {v[i] : i \in DOMAIN v}

\* One query clause (match / multi_match leg) on one field of a stored
\* document, under the mapping the index was created with: a keyword field
\* is compared whole, a text field by analysed tokens (operator OR).
FieldMatches(props, field, d, q) ==
    /\ field \in DOMAIN d
    /\ IF props[field] = "text"
       THEN Analyze(d[field]) \cap Analyze(q) # {}
       ELSE d[field] = q

RECURSIVE SumBoost(_, _, _, _)
\* most_fields: the boosts of the legs that match, added up.
SumBoost(props, fields, d, q) ==
    IF fields = <<>> THEN 0
    ELSE (IF FieldMatches(props, Head(fields).field, d, q) THEN Head(fields).boost ELSE 0)
         + SumBoost(props, Tail(fields), d, q)

\* Faulty variant of Matches: the uid clause does not restrict the result (as when
\* it is put under `should`).
MatchesUidOptional(props, body, id, d) ==
    /\ SumBoost(props, body.fields, d, body.query) > 0
    /\ body.filter.defined => id \in body.filter.ids

\* bool.must = [match uid, multi_match], bool.filter = terms _id (when given).
Matches(props, body, id, d) ==
    /\ FieldMatches(props, "uid", d, body.uid)
    /\ SumBoost(props, body.fields, d, body.query) > 0
    /\ body.filter.defined => id \in body.filter.ids

Hit(props, index, body, id, d) ==
    [_index |-> index, _id |-> id,
     _score |-> SumBoost(props, body.fields, d, body.query),
     _source |-> d,
     highlight |-> {f \in body.highlight : FieldMatches(props, f, d, body.query)}]

Min(a, b) == IF a < b THEN a ELSE b

\* client.search: the hit lists the engine may answer with, read from the
\* searchable view `view`: `size` matching documents at most, best scores
\* first, ties in any order.
EngineSearch(index, view, body) ==
    LET props == indexConfig[ConfigOf(index)].properties
        cands == {id \in DOMAIN view : Matches(props, body, id, view[id])}
        score(id) == SumBoost(props, body.fields, view[id], body.query)
        n == Min(body.size, Cardinality(cands))
    IN  {[i \in 1..n |-> Hit(props, index, body, h[i], view[h[i]])] :
            h \in {g \in [1..n -> cands] :
                    /\ \A i, j \in 1..n : i < j => g[i] # g[j] /\ score(g[i]) >= score(g[j])
                    /\ \A c \in cands \ {g[i] : i \in 1..n} :
                          \A i \in 1..n : score(g[i]) >= score(c)}}

\* -------------------------------------------------------- engine: writes
\* client.update with {doc, doc_as_upsert: true}: the partial document is
\* merged into the stored one; with nothing stored, it is inserted as is.
\* Faulty variant of MergeDoc: fields already stored keep their value.
MergeDocKeepStored(old, doc) ==
    [f \in DOMAIN old \cup DOMAIN doc |-> IF f \in DOMAIN old THEN old[f] ELSE doc[f]]

MergeDoc(old, doc) ==
    [f \in DOMAIN old \cup DOMAIN doc |-> IF f \in DOMAIN doc THEN doc[f] ELSE old[f]]

\* Faulty variant of EngineUpdate: the document replaces the stored one (client.index).
EngineReplace(ix, id, doc) ==
    [i \in DOMAIN ix \cup {id} |-> IF i # id THEN ix[i] ELSE doc]

EngineUpdate(ix, id, doc) ==
    [i \in DOMAIN ix \cup {id} |->
        IF i # id THEN ix[i]
        ELSE IF id \in DOMAIN ix THEN MergeDoc(ix[id], doc) ELSE doc]

\* Faulty variant of EngineRemove: nothing is removed.
EngineRemoveNothing(ix, id) == ix

\* client.delete: the document at `id` is removed.
EngineRemove(ix, id) == [i \in DOMAIN ix \ {id} |-> ix[i]]

\* The ids of an index whose live document is not the searchable one.
Pending(index) ==
    {id \in Ids :
        \/ (id \in DOMAIN docs[index]) # (id \in DOMAIN searchable[index])
        \/ /\ id \in DOMAIN docs[index]
           /\ id \in DOMAIN searchable[index]
           /\ docs[index][id] # searchable[index][id]}

\* Bound of the model: the engine takes a write to `index` while fewer than
\* MaxPending of its ids await a refresh.
Accepts(index, id) ==
    id \notin Pending(index) => Cardinality(Pending(index)) < MaxPending

\* A document indexed before the run, one per entity type: its id is the
\* type's name (outside Ids, so no handler call of the model addresses it),
\* it belongs to the first user and carries every text field of the type.
ResidentDoc(index) ==
    LET props == indexConfig[ConfigOf(index)].properties
    IN  [f \in {"id", "uid"} \cup {g \in DOMAIN props : props[g] = "text"} |->
            IF f = "id" THEN ConfigOf(index)
            ELSE IF f = "uid" THEN <<"u", "1">> ELSE <<"q">>]

\* The indices, each holding its resident document and nothing else.
Residents ==
    [index \in IndexNames |-> [id \in {ConfigOf(index)} |-> ResidentDoc(index)]]

Resident(index) == Residents[index]

\* Bound of the model: the callers work on one entity type at a time.  A
\* handler is called for `index` while every other index is refreshed and
\* holds nothing but, at most, its resident document.
InUse(index) ==
    \A other \in IndexNames \ {index} :
        /\ docs[other] = searchable[other]
        /\ docs[other] \in {EmptyIndex, Resident(other)}

\* The engine makes writes searchable at its next refresh of the index; the
\* update and delete calls of the gateway pass no `refresh` parameter.
Refresh(index) ==
    /\ searchable[index] # docs[index]
    /\ searchable' = [searchable EXCEPT ![index] = docs[index]]
    /\ UNCHANGED <<indices, docs, boot, result, ui>>

\* ------------------------------------------------------------ write path
\* Faulty variant of UpsertOutcome: the catch block logs and does not rethrow.
UpsertOutcomeSwallowed(resp) ==
    IF resp = "ok"
    THEN [calls |-> 1, outcome |-> "returned", logged |-> "log"]
    ELSE [calls |-> 1, outcome |-> "returned", logged |-> "error"]

\* What upsertDocument does with the engine's answer: log and return the
\* result, or log the error and rethrow it.  One client.update call.
UpsertOutcome(resp) ==
    IF resp = "ok"
    THEN [calls |-> 1, outcome |-> "returned", logged |-> "log"]
    ELSE [calls |-> 1, outcome |-> "threw", error |-> resp, logged |-> "error"]

upsertDocument(index, document) ==
    /\ InUse(index)
    /\ \/ /\ Accepts(index, document.id)
          /\ docs' = [docs EXCEPT ![index] = EngineUpdate(@, document.id, document)]
          /\ result' = [op |-> "upsert", index |-> index, id |-> document.id,
                        document |-> document,
                        repeated |-> /\ result.op = "upsert"
                                     /\ result.engine = "ok"
                                     /\ result.index = index
                                     /\ result.document = document,
                        engine |-> "ok", handler |-> UpsertOutcome("ok")]
       \/ /\ \E e \in EngineErrors :
                result' = [op |-> "upsert", index |-> index,
                           engine |-> e, handler |-> UpsertOutcome(e)]
          /\ UNCHANGED docs
    /\ UNCHANGED <<indices, searchable, boot, ui>>

\* The documents the callers upsert for an entity type: id and uid, and
\* either the title-like field alone or every text field of the type (the
\* document interfaces make all of them optional).
DocInputs(first, textFields) ==
    UNION {{[f \in {"id", "uid"} \cup S |->
                IF f = "id" THEN id ELSE IF f = "uid" THEN u.uid ELSE tx[f]] :
              id \in Ids, u \in Users, tx \in [S -> Texts]} :
           S \in {{first}, textFields}}

upsertResource ==
    \E resource \in DocInputs("title", {"title", "content"}) :
        upsertDocument(indexConfig.resource.index, resource)

upsertCollection ==
    \E collection \in DocInputs("title", {"title", "description"}) :
        upsertDocument(indexConfig.collection.index, collection)

upsertNote ==
    \E note \in DocInputs("title", {"title", "content"}) :
        upsertDocument(indexConfig.note.index, note)

upsertConversationMessage ==
    \E message \in DocInputs("convTitle", {"convTitle", "content"}) :
        upsertDocument(indexConfig.conversationMessage.index, message)

upsertSkill ==
    \E skill \in DocInputs("displayName", {"displayName", "description", "tplName"}) :
        upsertDocument(indexConfig.skill.index, skill)

\* Faulty variant of DeleteOutcome: a not-found answer is ignored (as with
\* `ignore: [404]`) and the handler returns.
DeleteOutcomeIgnoreMissing(resp) == [outcome |-> "returned"]

\* `return this.client.delete(...)` with no try/catch: the engine's answer,
\* an error included, is the handler's outcome.
DeleteOutcome(resp) ==
    IF resp = "ok"
    THEN [outcome |-> "returned"]
    ELSE [outcome |-> "threw", error |-> resp]

\* client.delete: the engine removes the live document at `id`, or answers
\* 404 (not found) for an id that is not stored.
EngineDelete(index, id) ==
    /\ InUse(index)
    /\ \/ /\ id \in DOMAIN docs[index]
          /\ Accepts(index, id)
          /\ docs' = [docs EXCEPT ![index] = EngineRemove(@, id)]
          /\ result' = [op |-> "delete", index |-> index, id |-> id]
                            @@ DeleteOutcome("ok")
       \/ /\ id \notin DOMAIN docs[index]
          /\ result' = [op |-> "delete", index |-> index, id |-> id]
                            @@ DeleteOutcome("not_found")
          /\ UNCHANGED docs
    /\ UNCHANGED <<indices, searchable, boot, ui>>

deleteResource == \E resourceId \in Ids : EngineDelete(indexConfig.resource.index, resourceId)

deleteNote == \E noteId \in Ids : EngineDelete(indexConfig.note.index, noteId)

deleteCollection ==
    \E collectionId \in Ids : EngineDelete(indexConfig.collection.index, collectionId)

deleteConversationMessage ==
    \E messageId \in Ids : EngineDelete(indexConfig.conversationMessage.index, messageId)

deleteSkill == \E skillId \in Ids : EngineDelete(indexConfig.skill.index, skillId)

\* ------------------------------------------------------------- read path
\* Search requests {query, limit, entities?}: a query that words of the
\* stored texts match, with every limit and every `entities`; a query that
\* matches no stored text; and a negative limit.
Entities == {NoEntities, EntityList(<<>>), EntityList(<<[entityId |-> "d1"]>>)}
Requests ==
    [query : Texts, limit : 0..MaxLimit, entities : Entities]
        \cup [query : Queries \ Texts, limit : {MaxLimit}, entities : {NoEntities}]
        \cup {[query |-> <<"q">>, limit |-> -1, entities |-> NoEntities]}

\* Faulty variant of EntityFilter: the filter is never added.
EntityFilterDropped(entities) == NoFilter

\* `entities?.length > 0 && {filter: [{terms: {_id: entities.map(e => e.entityId)}}]}`
EntityFilter(entities) ==
    IF entities.defined /\ Len(entities.list) > 0
    THEN TermsFilter({entities.list[i].entityId : i \in DOMAIN entities.list})
    ELSE NoFilter

\* The uid clause of bool.must.
UidClause(user) == user.uid

\* Faulty variant of Size: one hit more than asked for.
SizePlusOne(limit) == limit + 1

\* The `size` of the search body.
Size(limit) == limit

\* The search body the handlers build.
SearchBody(fields, highlight, filter, user, req) ==
    [uid |-> UidClause(user), query |-> req.query, fields |-> fields, filter |-> filter,
     size |-> Size(req.limit), highlight |-> highlight]

\* Faulty variant of SearchOutcomes: the search names no index and reads them all.
SearchOutcomesAnyIndex(index, body) ==
    IF body.size >= 0
    THEN UNION {{[outcome |-> "returned", hits |-> hits] :
                    hits \in EngineSearch(other, searchable[other], body)} :
                other \in IndexNames}
    ELSE {[outcome |-> "threw", error |-> "es_rejected"]}

\* client.search and `return body.hits.hits`; an engine error (a negative
\* size is rejected) propagates to the caller.
SearchOutcomes(index, body) ==
    IF body.size >= 0
    THEN {[outcome |-> "returned", hits |-> hits] :
            hits \in EngineSearch(index, searchable[index], body)}
    ELSE {[outcome |-> "threw", error |-> "es_rejected"]}

SearchCall(index, body) ==
    /\ InUse(index)
    /\ \E out \in SearchOutcomes(index, body) :
          result' = [op |-> "search", index |-> index, handler |-> out]
    /\ UNCHANGED <<engine, boot, ui>>

resourceBody(user, req) ==
    SearchBody(<<[field |-> "title", boost |-> 2], [field |-> "content", boost |-> 1]>>,
               {"title", "content"}, EntityFilter(req.entities), user, req)

searchResources(user, req) ==
    SearchCall(indexConfig.resource.index, resourceBody(user, req))

noteBody(user, req) ==
    SearchBody(<<[field |-> "title", boost |-> 2], [field |-> "content", boost |-> 1]>>,
               {"title", "content"}, EntityFilter(req.entities), user, req)

searchNotes(user, req) ==
    SearchCall(indexConfig.note.index, noteBody(user, req))

collectionBody(user, req) ==
    SearchBody(<<[field |-> "title", boost |-> 2], [field |-> "description", boost |-> 1]>>,
               {"title", "description"}, EntityFilter(req.entities), user, req)

searchCollections(user, req) ==
    SearchCall(indexConfig.collection.index, collectionBody(user, req))

\* Faulty variant of conversationMessageBody: the entities filter is added as in
\* the resource, note and collection searches.
conversationMessageBodyFiltered(user, req) ==
    SearchBody(<<[field |-> "convTitle", boost |-> 2], [field |-> "content", boost |-> 1]>>,
               {"convTitle", "content"}, EntityFilter(req.entities), user, req)

conversationMessageBody(user, req) ==
    SearchBody(<<[field |-> "convTitle", boost |-> 2], [field |-> "content", boost |-> 1]>>,
               {"convTitle", "content"}, NoFilter, user, req)

searchConversationMessages(user, req) ==
    SearchCall(indexConfig.conversationMessage.index, conversationMessageBody(user, req))

skillBody(user, req) ==
    SearchBody(<<[field |-> "displayName", boost |-> 2],
                 [field |-> "description", boost |-> 1],
                 [field |-> "tplName", boost |-> 1]>>,
               {"displayName", "description"}, NoFilter, user, req)

searchSkills(user, req) ==
    SearchCall(indexConfig.skill.index, skillBody(user, req))

\* The five search handlers by the index each one addresses: the body the
\* handler of `index` builds for a request.
BodyFor(index, user, req) ==
    CASE index = indexConfig.resource.index -> resourceBody(user, req)
      [] index = indexConfig.note.index -> noteBody(user, req)
      [] index = indexConfig.collection.index -> collectionBody(user, req)
      [] index = indexConfig.conversationMessage.index ->
            conversationMessageBody(user, req)
      [] index = indexConfig.skill.index -> skillBody(user, req)

\* The indices whose search handler reads the request's `entities`.
EntityIndices ==
    {indexConfig.resource.index, indexConfig.note.index, indexConfig.collection.index}

\* ---------------------------------------------------------- specification
NoResult == [op |-> "none"]

\* Keys of the link objects (genUniqueId), in the order they are issued.
Keys == 1..MaxLinks

\* The import list before anything is pasted: no link, no request in flight.
NoLinks ==
    /\ scrapeLinks = <<>>
    /\ linkMeta = [key \in Keys |-> [isHandled |-> FALSE, isError |-> FALSE]]
    /\ scrapes = [key \in Keys |-> [status |-> "none", scrapeLinks |-> <<>>]]
    /\ saveLoading = FALSE

\* The gateway serving requests: bootstrap has completed, every registered
\* index exists and holds no document yet.
Init ==
    /\ indices = IndexNames
    /\ docs = [index \in IndexNames |-> EmptyIndex]
    /\ searchable = [index \in IndexNames |-> EmptyIndex]
    /\ init = [p \in Procs |-> IF p = "p1" THEN "resolved" ELSE "idle"]
    /\ call = [p \in Procs |-> [index \in IndexNames |-> IF p = "p1" THEN "done" ELSE "none"]]
    /\ creates = [p \in Procs |-> 0]
    /\ atStart = [p \in Procs |-> IndexNames]
    /\ runs = [p \in Procs |-> IF p = "p1" THEN 1 ELSE 0]
    /\ result = NoResult
    /\ NoLinks

Next ==
    \/ upsertResource
    \/ upsertCollection
    \/ upsertNote
    \/ upsertConversationMessage
    \/ upsertSkill
    \/ deleteResource
    \/ deleteNote
    \/ deleteCollection
    \/ deleteConversationMessage
    \/ deleteSkill
    \/ \E user \in Users, req \in Requests : searchResources(user, req)
    \/ \E user \in Users, req \in Requests : searchNotes(user, req)
    \/ \E user \in Users, req \in Requests : searchCollections(user, req)
    \/ \E user \in Users, req \in Requests : searchConversationMessages(user, req)
    \/ \E user \in Users, req \in Requests : searchSkills(user, req)
    \/ \E index \in IndexNames : Refresh(index)

Spec == Init /\ [][Next]_vars

\* The gateway serving requests against an engine whose five indices hold
\* documents already: every index starts with its resident document.
FrameInit ==
    /\ indices = IndexNames
    /\ docs = [index \in IndexNames |-> Resident(index)]
    /\ searchable = [index \in IndexNames |-> Resident(index)]
    /\ init = [p \in Procs |-> IF p = "p1" THEN "resolved" ELSE "idle"]
    /\ call = [p \in Procs |-> [index \in IndexNames |-> IF p = "p1" THEN "done" ELSE "none"]]
    /\ creates = [p \in Procs |-> 0]
    /\ atStart = [p \in Procs |-> IndexNames]
    /\ runs = [p \in Procs |-> IF p = "p1" THEN 1 ELSE 0]
    /\ result = NoResult
    /\ NoLinks

SpecFrame == FrameInit /\ [][Next]_vars

\* -------------------------------------------------------------- bootstrap
\* Promise.all over the per-index calls: rejected as soon as one call has
\* failed, resolved once every call is done, pending otherwise; a settled
\* promise stays as it is.
PromiseAll(promise, calls) ==
    IF promise # "pending" THEN promise
    ELSE IF \E index \in IndexNames : calls[index] \in {"exists_error", "create_error"}
    THEN "rejected"
    ELSE IF \A index \in IndexNames : calls[index] = "done" THEN "resolved"
    ELSE "pending"

\* Faulty variant of NeedsCreate: the index is created whatever the check answered.
NeedsCreateAlways(indexExists) == TRUE

\* `if (!indexExists)`: the index is created when the check answered false.
NeedsCreate(indexExists) == ~indexExists

\* onModuleInit: every ensureIndexExists(config) runs up to its first await,
\* so the five indices.exists calls are all issued before anything else.
onModuleInit(p) ==
    /\ init[p] = "idle"
    /\ runs[p] < MaxRuns
    /\ init' = [init EXCEPT ![p] = "pending"]
    /\ call' = [call EXCEPT ![p] = [index \in IndexNames |-> "exists"]]
    /\ creates' = [creates EXCEPT ![p] = 0]
    /\ atStart' = [atStart EXCEPT ![p] = indices]
    /\ runs' = [runs EXCEPT ![p] = @ + 1]
    /\ UNCHANGED <<engine, result, ui>>

\* The process is running its event loop: continuations of awaited calls run.
Alive(p) == init[p] \in {"pending", "resolved", "rejected"}

\* ensureIndexExists after `await indices.exists`: the engine's answer (or
\* its error), then either the indices.create call is issued or "already
\* exists" is logged.
ExistsAnswered(p, index) ==
    /\ Alive(p)
    /\ call[p][index] = "exists"
    /\ \/ /\ NeedsCreate(index \in indices)
          /\ call' = [call EXCEPT ![p][index] = "create"]
          /\ creates' = [creates EXCEPT ![p] = @ + 1]
          /\ UNCHANGED init
       \/ /\ ~NeedsCreate(index \in indices)
          /\ call' = [call EXCEPT ![p][index] = "done"]
          /\ init' = [init EXCEPT ![p] = PromiseAll(@, call'[p])]
          /\ UNCHANGED creates
       \/ /\ call' = [call EXCEPT ![p][index] = "exists_error"]
          /\ init' = [init EXCEPT ![p] = PromiseAll(@, call'[p])]
          /\ UNCHANGED creates
    /\ UNCHANGED <<engine, atStart, runs, result, ui>>

\* ensureIndexExists after `await indices.create`: the engine created the
\* index, or answered with an error (it rejects creating an index that
\* exists by now).
CreateAnswered(p, index) ==
    /\ Alive(p)
    /\ call[p][index] = "create"
    /\ \/ /\ index \notin indices
          /\ indices' = indices \cup {index}
          /\ call' = [call EXCEPT ![p][index] = "done"]
       \/ /\ call' = [call EXCEPT ![p][index] = "create_error"]
          /\ UNCHANGED indices
    /\ init' = [init EXCEPT ![p] = PromiseAll(@, call'[p])]
    /\ UNCHANGED <<docs, searchable, creates, atStart, runs, result, ui>>

\* A rejected onModuleInit aborts the startup of the process: its calls
\* still in flight are never continued.
Abort(p) ==
    /\ init[p] = "rejected"
    /\ init' = [init EXCEPT ![p] = "exited"]
    /\ UNCHANGED <<engine, call, creates, atStart, runs, result, ui>>

\* The process is started again (a deploy, or after an aborted startup).
Restart(p) ==
    /\ \/ init[p] = "exited"
       \/ init[p] = "resolved"
    /\ runs[p] < MaxRuns
    /\ init' = [init EXCEPT ![p] = "idle"]
    /\ call' = [call EXCEPT ![p] = [index \in IndexNames |-> "none"]]
    /\ UNCHANGED <<engine, creates, atStart, runs, result, ui>>

\* One gateway process starting against an engine that holds any of the
\* registered indices already.
BootInit ==
    /\ indices \in SUBSET IndexNames
    /\ docs = [index \in IndexNames |-> EmptyIndex]
    /\ searchable = [index \in IndexNames |-> EmptyIndex]
    /\ init = [p \in Procs |-> "idle"]
    /\ call = [p \in Procs |-> [index \in IndexNames |-> "none"]]
    /\ creates = [p \in Procs |-> 0]
    /\ atStart = [p \in Procs |-> {}]
    /\ runs = [p \in Procs |-> 0]
    /\ result = NoResult
    /\ NoLinks

BootNext ==
    \/ onModuleInit("p1")
    \/ \E index \in IndexNames : ExistsAnswered("p1", index)
    \/ \E index \in IndexNames : CreateAnswered("p1", index)
    \/ Abort("p1")
    \/ Restart("p1")

SpecBoot == BootInit /\ [][BootNext]_vars

\* Two gateway processes starting against the same engine, in which one or
\* two of the registered indices are absent.
RaceInit ==
    /\ BootInit
    /\ \E absent, other \in IndexNames : indices = IndexNames \ {absent, other}

\* The engine is healthy: it answers every existence check, and the only
\* indices.create it rejects is that of an index that exists.
RaceNext ==
    \E p \in Procs :
        \/ onModuleInit(p)
        \/ \E index \in IndexNames :
              ExistsAnswered(p, index) /\ call'[p][index] # "exists_error"
        \/ \E index \in IndexNames :
              /\ CreateAnswered(p, index)
              /\ call'[p][index] = "create_error" => index \in indices

SpecRace == RaceInit /\ [][RaceNext]_vars

\* ---------------------------------------------------- weblink import list
\* The keys issued so far.
Issued == {key \in Keys : scrapes[key].status # "none"}

\* The import store's setter: the list is replaced by the one handed in.
setScrapeLinks(newLinks) == scrapeLinks' = newLinks

\* scrapeLink: the n valid urls of the pasted text become n link objects with
\* fresh keys, appended to the list in the store; then scrapeSingleUrl is
\* called for each, and every call reads the list out of the store before
\* its request is sent.  (With no valid url the handler warns and returns.)
scrapeLink(n) ==
    LET first == Cardinality(Issued) + 1
        links == [i \in 1..n |-> first + i - 1]
        list == scrapeLinks \o links
    IN  /\ first + n - 1 <= MaxLinks
        /\ setScrapeLinks(list)
        /\ scrapes' = [key \in Keys |->
                         IF key \in first..(first + n - 1)
                         THEN [status |-> "inflight", scrapeLinks |-> list]
                         ELSE scrapes[key]]
        /\ UNCHANGED <<linkMeta, saveLoading, engine, boot, result>>

\* scrapeSingleUrl after `await scrape`: on success and in the catch block
\* alike, the list read before the request is mapped (the link object with
\* the matching key is flagged in place) and put into the store.
scrapeSingleUrl(key, error) ==
    /\ scrapes[key].status = "inflight"
    /\ linkMeta' = [linkMeta EXCEPT ![key] =
                        IF error THEN [@ EXCEPT !.isError = TRUE]
                        ELSE [@ EXCEPT !.isHandled = TRUE]]
    /\ setScrapeLinks(scrapes[key].scrapeLinks)
    /\ scrapes' = [scrapes EXCEPT ![key].status = "done"]
    /\ UNCHANGED <<saveLoading, engine, boot, result>>

\* The remove button of a list item: the list without the item's link.
removeLink(key) ==
    LET Others(k) == k # key
    IN  /\ \E i \in DOMAIN scrapeLinks : scrapeLinks[i] = key
        /\ setScrapeLinks(SelectSeq(scrapeLinks, Others))
        /\ UNCHANGED <<linkMeta, scrapes, saveLoading, engine, boot, result>>

\* handleSave up to `await batchCreateResource`; the save button is disabled
\* while the list is empty or a save is loading.
handleSave ==
    /\ ~saveLoading
    /\ Len(scrapeLinks) > 0
    /\ saveLoading' = TRUE
    /\ UNCHANGED <<scrapeLinks, linkMeta, scrapes, engine, boot, result>>

\* handleSave after the await: on success the list in the store is cleared.
batchCreateAnswered(success) ==
    /\ saveLoading
    /\ saveLoading' = FALSE
    /\ IF success THEN setScrapeLinks(<<>>) ELSE UNCHANGED scrapeLinks
    /\ UNCHANGED <<linkMeta, scrapes, engine, boot, result>>

LinkNext ==
    \/ \E n \in 1..MaxLinks : scrapeLink(n)
    \/ \E key \in Keys, error \in BOOLEAN : scrapeSingleUrl(key, error)
    \/ \E key \in Keys : removeLink(key)
    \/ handleSave
    \/ \E success \in BOOLEAN : batchCreateAnswered(success)

SpecLinks == Init /\ [][LinkNext]_vars

\* ================================================================= claims
\* The ids of a hit list.
HitIds(hits) == {hits[i]._id : i \in DOMAIN hits}

\* A search handler call has just returned (or thrown).
Searched == result.op = "search"
UpsertedOk == result.op = "upsert" /\ result.engine = "ok"
Deleted == result.op = "delete" /\ result.outcome = "returned"

\* The last write (the one `result` reports) has been made searchable.
Refreshed == result.id \notin Pending(result.index)

\* C1: for every entity type, user and request, in every reachable content
\* of the index, every hit a search handler returns carries the uid of the
\* user who searched.
C1_Scoping ==
    \A user \in Users, req \in Requests :
        \A index \in IndexNames :
            InUse(index) =>
            \A out \in SearchOutcomes(index, BodyFor(index, user, req)) :
                out.outcome = "returned" =>
                    \A i \in DOMAIN out.hits : out.hits[i]._source.uid = user.uid

\* A search returned a hit while the index it read also holds, searchable,
\* a document of another user.
C1_Witness ==
    /\ Searched
    /\ result.handler.outcome = "returned"
    /\ Len(result.handler.hits) > 0
    /\ \E id \in DOMAIN searchable[result.index] :
          searchable[result.index][id].uid # result.handler.hits[1]._source.uid

\* C2: upsert is idempotent by id.  From any index state, upserting the
\* document that was upserted just before changes nothing in the engine, and
\* after an upsert the id holds one document carrying the values of every
\* field of the upserted document.
C2_Idempotent ==
    /\ [](UpsertedOk =>
            /\ result.id \in DOMAIN docs[result.index]
            /\ \A f \in DOMAIN result.document :
                  docs[result.index][result.id][f] = result.document[f])
    /\ [][(result'.op = "upsert" /\ result'.engine = "ok" /\ result'.repeated)
            => (docs' = docs /\ (result' # result => searchable' = searchable))]_vars

\* The same document has been upserted twice in a row, onto a stored
\* document that carried another uid before the first of the two.
C2_Witness ==
    /\ UpsertedOk
    /\ result.repeated
    /\ result.id \in DOMAIN searchable[result.index]
    /\ searchable[result.index][result.id].uid # result.document.uid

\* C3 as stated: after a successful upsert of d, the document stored at d.id
\* equals d exactly, whatever was stored there before.
C3_StoredEqualsDocument ==
    UpsertedOk => docs[result.index][result.id] = result.document

\* C3, amended: a successful upsert of d merges d into the document stored
\* at d.id: every field of d takes d's value, a field stored before and
\* absent from d keeps its stored value, no other field appears, and with
\* nothing stored at d.id the stored document equals d.
C3_Merged ==
    [][(result'.op = "upsert" /\ result'.engine = "ok") =>
         LET index == result'.index
             id == result'.id
             d == result'.document
             new == docs'[index][id]
         IN  /\ id \in DOMAIN docs'[index]
             /\ \A f \in DOMAIN d : f \in DOMAIN new /\ new[f] = d[f]
             /\ IF id \in DOMAIN docs[index]
                THEN LET old == docs[index][id]
                     IN  /\ DOMAIN new = DOMAIN d \cup DOMAIN old
                         /\ \A f \in DOMAIN old \ DOMAIN d : new[f] = old[f]
                ELSE new = d
             /\ \A i \in DOMAIN docs[index] \ {id} :
                   i \in DOMAIN docs'[index] /\ docs'[index][i] = docs[index][i]]_vars

\* An upsert has left a field stored that the upserted document lacks.
C3_Witness ==
    /\ UpsertedOk
    /\ DOMAIN docs[result.index][result.id] # DOMAIN result.document

\* C4 as stated: whenever the request supplies `entities` (an empty list
\* included), every hit of searchResources / searchNotes /
\* searchCollections has an _id among the supplied entityId values.
C4_SubsetOfSupplied ==
    \A user \in Users, req \in Requests :
        \A index \in EntityIndices :
            (InUse(index) /\ req.entities.defined) =>
                \A out \in SearchOutcomes(index, BodyFor(index, user, req)) :
                    out.outcome = "returned" =>
                        HitIds(out.hits) \subseteq
                            {req.entities.list[i].entityId : i \in DOMAIN req.entities.list}

\* C4, amended: whenever the request supplies a non-empty `entities` list,
\* every hit of searchResources / searchNotes / searchCollections has an _id
\* among the supplied entityId values; an empty list filters nothing.
C4_SubsetOfNonEmpty ==
    \A user \in Users, req \in Requests :
        \A index \in EntityIndices :
            (InUse(index) /\ req.entities.defined /\ Len(req.entities.list) > 0) =>
                \A out \in SearchOutcomes(index, BodyFor(index, user, req)) :
                    out.outcome = "returned" =>
                        HitIds(out.hits) \subseteq
                            {req.entities.list[i].entityId : i \in DOMAIN req.entities.list}

\* A search with a non-empty entities list has returned while a document
\* outside the list matched the same user and query.
C4_Witness ==
    /\ Searched
    /\ result.index \in EntityIndices
    /\ \E user \in Users, req \in Requests :
          LET body == BodyFor(result.index, user, req)
          IN  /\ req.entities.defined /\ Len(req.entities.list) > 0
              /\ result.handler \in SearchOutcomes(result.index, body)
              /\ \E out \in SearchOutcomes(result.index, [body EXCEPT !.filter = NoFilter]) :
                    /\ out.outcome = "returned"
                    /\ ~(HitIds(out.hits) \subseteq
                           {req.entities.list[i].entityId : i \in DOMAIN req.entities.list})

\* C5: for every entity type and every request, a search handler returns no
\* more hits than the requested limit.
C5_Limit ==
    \A user \in Users, req \in Requests :
        \A index \in IndexNames :
            InUse(index) =>
            \A out \in SearchOutcomes(index, BodyFor(index, user, req)) :
                out.outcome = "returned" => Len(out.hits) <= req.limit

\* A search has returned `limit` hits while more documents of that user
\* matched the query.
C5_Witness ==
    /\ Searched
    /\ \E user \in Users, req \in Requests :
          LET body == BodyFor(result.index, user, req)
          IN  /\ result.handler \in SearchOutcomes(result.index, body)
              /\ result.handler.outcome = "returned"
              /\ Len(result.handler.hits) = req.limit
              /\ req.limit > 0
              /\ \E out \in SearchOutcomes(result.index, [body EXCEPT !.size = req.limit + 1]) :
                    Len(out.hits) > req.limit

\* The stored documents of `index` that a search body selects.
Selected(index, body) ==
    {id \in DOMAIN searchable[index] :
        Matches(indexConfig[ConfigOf(index)].properties, body, id, searchable[index][id])}

\* C6 as stated: after upsert(d) with d.uid = u a search as u whose query
\* matches d returns d; after a successful delete(d.id) with no later upsert
\* no search returns a hit with that id; searches never change the index.
C6_ReadYourWrites ==
    /\ UpsertedOk =>
          \A user \in Users, req \in Requests :
              LET body == BodyFor(result.index, user, req)
                  d == docs[result.index][result.id]
              IN  (/\ user.uid = d.uid
                   /\ req.limit >= 0
                   /\ SumBoost(indexConfig[ConfigOf(result.index)].properties,
                               body.fields, d, body.query) > 0)
                  => \A out \in SearchOutcomes(result.index, body) :
                        result.id \in HitIds(out.hits)
    /\ Deleted =>
          \A user \in Users, req \in Requests :
              \A out \in SearchOutcomes(result.index, BodyFor(result.index, user, req)) :
                  out.outcome = "returned" => result.id \notin HitIds(out.hits)

\* C6, amended: a document is returned by search only while the engine's
\* searchable view holds it.  Once the index has been refreshed after
\* upsert(d), a search as d's uid whose query matches d, whose entities
\* filter (if any) admits d.id and whose limit is at least the number of
\* documents the search selects returns d; once the index has been refreshed
\* after a successful delete(d.id), with no later upsert of that id, no
\* search returns a hit with that id; every hit is a searchable document;
\* searches never change the engine's documents.
C6_SearchableOnly ==
    /\ []((UpsertedOk /\ Refreshed) =>
            \A user \in Users, req \in Requests :
                LET body == BodyFor(result.index, user, req)
                IN  (/\ result.id \in Selected(result.index, body)
                     /\ req.limit >= Cardinality(Selected(result.index, body)))
                    => \A out \in SearchOutcomes(result.index, body) :
                          /\ out.outcome = "returned"
                          /\ result.id \in HitIds(out.hits))
    /\ []((Deleted /\ Refreshed) =>
            \A user \in Users, req \in Requests :
                \A out \in SearchOutcomes(result.index, BodyFor(result.index, user, req)) :
                    out.outcome = "returned" => result.id \notin HitIds(out.hits))
    /\ [](\A user \in Users, req \in Requests :
            \A index \in IndexNames :
                InUse(index) =>
                \A out \in SearchOutcomes(index, BodyFor(index, user, req)) :
                    out.outcome = "returned" =>
                        \A i \in DOMAIN out.hits :
                            /\ out.hits[i]._id \in DOMAIN searchable[index]
                            /\ out.hits[i]._source = searchable[index][out.hits[i]._id])
    /\ [][(result'.op = "search" /\ result' # result) => UNCHANGED engine]_vars

\* A delete has succeeded and the index has been refreshed since, with
\* another document still searchable in it.
C6_Witness ==
    /\ Deleted
    /\ Refreshed
    /\ DOMAIN searchable[result.index] # {}

\* C10: when the engine rejects an upsert, upsertDocument logs the error
\* and throws that same error; every invocation issues one client.update
\* call and a failed write is never reported as a success.
C10_UpsertFailure ==
    result.op = "upsert" =>
        /\ result.handler.calls = 1
        /\ result.handler.outcome = "returned" => result.engine = "ok"
        /\ result.engine # "ok" =>
              /\ result.handler.outcome = "threw"
              /\ result.handler.error = result.engine
              /\ result.handler.logged = "error"

\* The engine has rejected an upsert to an index that holds documents.
C10_Witness ==
    /\ result.op = "upsert"
    /\ result.engine = "es_rejected"
    /\ docs[result.index] # EmptyIndex

\* C11: a delete handler called for an id that is not stored in its type's
\* index fails with the engine's not-found error, thrown to the caller, and
\* leaves the indices, their documents and their searchable documents
\* unchanged.
C11_DeleteMissing ==
    [][(/\ result'.op = "delete"
        /\ result' # result
        /\ result'.id \notin DOMAIN docs[result'.index])
         => /\ result'.outcome = "threw"
            /\ result'.error = "not_found"
            /\ UNCHANGED engine]_vars

\* A delete has failed with not-found for an id that search still returns
\* (it was deleted just before), in an index that holds another document.
C11_Witness ==
    /\ result.op = "delete"
    /\ result.outcome = "threw"
    /\ result.error = "not_found"
    /\ result.id \in DOMAIN searchable[result.index]
    /\ docs[result.index] # EmptyIndex

\* C12: the five registered index names are pairwise distinct; an upsert or
\* a delete changes no index but the one its handler addresses, whatever
\* the other indices hold; every hit of a search handler is a searchable
\* document of the index that handler addresses and names that index; a
\* search changes no index.
C12_OwnIndex ==
    /\ [](\A t, u \in Types : t # u => indexConfig[t].index # indexConfig[u].index)
    /\ [][(result' # result /\ result'.op \in {"upsert", "delete"}) =>
            \A other \in IndexNames \ {result'.index} :
                docs'[other] = docs[other] /\ searchable'[other] = searchable[other]]_vars
    /\ [](\A user \in Users, req \in Requests :
            \A index \in IndexNames :
                InUse(index) =>
                \A out \in SearchOutcomes(index, BodyFor(index, user, req)) :
                    out.outcome = "returned" =>
                        \A i \in DOMAIN out.hits :
                            /\ out.hits[i]._index = index
                            /\ out.hits[i]._id \in DOMAIN searchable[index]
                            /\ \A other \in IndexNames \ {index} :
                                  out.hits[i]._id \notin DOMAIN searchable[other])
    /\ [][(result' # result /\ result'.op = "search") =>
            (indices' = indices /\ docs' = docs /\ searchable' = searchable)]_vars

\* A search has returned a document that a handler upserted into its index
\* while each of the other four indices holds a document that matches the
\* same query.
C12_Witness ==
    /\ Searched
    /\ result.handler.outcome = "returned"
    /\ \E i \in DOMAIN result.handler.hits : result.handler.hits[i]._id \in Ids
    /\ \A other \in IndexNames \ {result.index} : searchable[other] = Resident(other)

\* The indices whose search handler does not read the request's `entities`.
UnfilteredIndices == IndexNames \ EntityIndices

\* C13: searchConversationMessages and searchSkills ignore `entities`: for
\* every user and request, in every searchable content, the results they may
\* return are those of the same request with `entities` left out, be the
\* list absent, empty or non-empty.
C13_EntitiesIgnored ==
    \A user \in Users, req \in Requests :
        \A index \in UnfilteredIndices :
            InUse(index) =>
                SearchOutcomes(index, BodyFor(index, user, req))
                    = SearchOutcomes(index,
                          BodyFor(index, user, [req EXCEPT !.entities = NoEntities]))

\* A conversation-message or skill search whose request carries a non-empty
\* entities list has returned a hit whose _id is not in the list.
C13_Witness ==
    /\ Searched
    /\ result.index \in UnfilteredIndices
    /\ result.handler.outcome = "returned"
    /\ \E user \in Users, req \in Requests :
          /\ req.entities.defined
          /\ Len(req.entities.list) > 0
          /\ result.handler \in SearchOutcomes(result.index, BodyFor(result.index, user, req))
          /\ \E i \in DOMAIN result.handler.hits :
                result.handler.hits[i]._id \notin
                    {req.entities.list[j].entityId : j \in DOMAIN req.entities.list}

\* ------------------------------------------------------ bootstrap claims
\* The calls of p's bootstrap that are still in flight.
InFlight(p) == {index \in IndexNames : call[p][index] \in {"exists", "create"}}

\* The calls of p's bootstrap that have failed.
FailedCalls(p) == {index \in IndexNames : call[p][index] \in {"exists_error", "create_error"}}

\* p's bootstrap is over: every call has settled, or the process has exited.
BootstrapOver(p) ==
    \/ init[p] = "exited"
    \/ init[p] \in {"resolved", "rejected"} /\ InFlight(p) = {}

\* C7: a bootstrap run that begins when all five registered indices exist
\* issues no indices.create call and leaves the set of indices unchanged,
\* and, once the engine has answered every existence check, has completed
\* without error.
C7_SecondBootstrapNoop ==
    \A p \in Procs :
        (init[p] # "idle" /\ runs[p] > 0 /\ atStart[p] = IndexNames) =>
            /\ creates[p] = 0
            /\ indices = IndexNames
            /\ \A index \in IndexNames : call[p][index] \in {"exists", "done", "exists_error"}
            /\ (\A index \in IndexNames : call[p][index] = "done") => init[p] = "resolved"
            /\ init[p] \in {"rejected", "exited"} =>
                  \E index \in IndexNames : call[p][index] = "exists_error"

\* The process has been started a second time, against an engine in which
\* all five indices exist, and its bootstrap has completed.
C7_Witness ==
    /\ runs["p1"] = 2
    /\ atStart["p1"] = IndexNames
    /\ init["p1"] = "resolved"

\* C8: once a bootstrap is over, a failed call for one index has not kept
\* any other index from having its existence check attempted and, if that
\* index is absent, its creation attempted.
C8_FailureIsolated ==
    \A p \in Procs :
        BootstrapOver(p) =>
            \A index \in IndexNames :
                (FailedCalls(p) \ {index} # {}) =>
                    /\ call[p][index] # "none"
                    /\ (index \notin indices /\ index \notin FailedCalls(p)) =>
                          call[p][index] \in {"create", "done"}

\* C9: onModuleInit has neither resolved nor rejected while a per-index
\* ensureIndexExists call is still in flight.
C9_WaitsForAll ==
    \A p \in Procs :
        init[p] \in {"resolved", "rejected"} => InFlight(p) = {}

\* C14 as stated: when two processes bootstrap concurrently against a
\* healthy engine in which a registered index is absent, no bootstrap fails,
\* and once both have completed every registered index exists.
C14_BothComplete ==
    /\ \A p \in Procs :
          /\ init[p] # "rejected"
          /\ \A index \in IndexNames : call[p][index] # "create_error"
    /\ (\A p \in Procs : init[p] = "resolved") => indices = IndexNames

\* ------------------------------------------------------ import list claims
\* C15 as stated: the completion of a scrape request, success or error,
\* leaves the membership of the list as it is and changes the flags of no
\* link but the one with the matching key.
C15_MembershipKept ==
    [][\A key \in Keys :
          (scrapes[key].status = "inflight" /\ scrapes'[key].status = "done") =>
              /\ scrapeLinks' = scrapeLinks
              /\ \A other \in Keys \ {key} : linkMeta'[other] = linkMeta[other]]_vars

====
